---- MODULE Spec2Model ----
(***************************************************************************)
(* Model of streamlit-dashboard.py: the script loads every *.json file of  *)
(* the working directory, normalizes the findings into one table, derives  *)
(* team / fix timeline / cost columns, filters the table by the sidebar    *)
(* selections and reports metrics, a table and an Excel export.            *)
(*                                                                         *)
(* Text is modelled as a sequence of one-character strings so that         *)
(* lower(), upper(), capitalize(), split() and the `in` substring test are *)
(* computed character by character.                                        *)
(***************************************************************************)
EXTENDS Integers, Sequences, FiniteSets, TLC

\* ------------------------------------------------------------------ bounds
MaxFiles ==
    2
MaxFindings ==
    2

\* ------------------------------------------------------------ string text
LowerCase ==
    <<"a", "b", "c", "d", "e", "f", "g", "h", "i", "j", "k", "l", "m",
      "n", "o", "p", "q", "r", "s", "t", "u", "v", "w", "x", "y", "z">>
UpperCase ==
    <<"A", "B", "C", "D", "E", "F", "G", "H", "I", "J", "K", "L", "M",
      "N", "O", "P", "Q", "R", "S", "T", "U", "V", "W", "X", "Y", "Z">>

LowerChar(c) ==
    IF \E i \in 1..Len(UpperCase) : UpperCase[i] = c
    THEN LowerCase[CHOOSE i \in 1..Len(UpperCase) : UpperCase[i] = c]
    ELSE c
UpperChar(c) ==
    IF \E i \in 1..Len(LowerCase) : LowerCase[i] = c
    THEN UpperCase[CHOOSE i \in 1..Len(LowerCase) : LowerCase[i] = c]
    ELSE c

\* str.lower()
Lower(s) ==
    [i \in 1..Len(s) |-> LowerChar(s[i])]
\* str.upper()
Upper(s) ==
    [i \in 1..Len(s) |-> UpperChar(s[i])]
\* str.capitalize(): first character upper-cased, the rest lower-cased
Capitalize(s) ==
    [i \in 1..Len(s) |-> IF i = 1 THEN UpperChar(s[i]) ELSE LowerChar(s[i])]
\* `sub in s`
Contains(s, sub) ==
    \E i \in 0..(Len(s) - Len(sub)) :
        \A j \in 1..Len(sub) : s[i + j] = sub[j]
\* s.split("-")[0]: the text before the first "-", or all of s without one
BeforeFirstDash(s) ==
    IF \E i \in 1..Len(s) : s[i] = "-"
    THEN SubSeq(s, 1, (CHOOSE i \in 1..Len(s) :
                          s[i] = "-" /\ \A j \in 1..(i - 1) : s[j] # "-") - 1)
    ELSE s

\* ------------------------------------------------------- string literals
S_Empty ==
    <<>>
S_Medium ==
    <<"M", "e", "d", "i", "u", "m">>
S_Critical ==
    <<"C", "r", "i", "t", "i", "c", "a", "l">>
S_High ==
    <<"H", "i", "g", "h">>
S_Low ==
    <<"L", "o", "w">>
S_Informational ==
    <<"I", "n", "f", "o", "r", "m", "a", "t", "i", "o", "n", "a", "l">>
S_None ==
    <<"N", "o", "n", "e">>
S_Region ==
    <<"u", "s", "-", "e", "a", "s", "t", "-", "2">>
S_FindingFrom ==
    <<"F", "i", "n", "d", "i", "n", "g", " ", "f", "r", "o", "m", " ">>
S_NoCritical ==
    <<"N", "o", " ", "c", "r", "i", "t", "i", "c", "a", "l", " ", "f", "i", "n", "d", "i", "n", "g", "s", " ", "f", "o", "r", " ">>
S_DataLoaded ==
    <<" ", "d", "a", "t", "a", " ", "l", "o", "a", "d", "e", "d", " ", "b", "u", "t", " ", "n", "o", " ", "s", "e", "c", "u", "r", "i", "t", "y", " ", "f", "i", "n", "d", "i", "n", "g", "s", " ", "r", "e", "p", "o", "r", "t", "e", "d", ".">>
S_NA ==
    <<"N", "/", "A">>
S_ACTIVE ==
    <<"A", "C", "T", "I", "V", "E">>
S_guardduty ==
    <<"g", "u", "a", "r", "d", "d", "u", "t", "y">>
S_securityhub ==
    <<"s", "e", "c", "u", "r", "i", "t", "y", "h", "u", "b">>
S_inspector ==
    <<"i", "n", "s", "p", "e", "c", "t", "o", "r">>
S_accessanalyzer ==
    <<"a", "c", "c", "e", "s", "s", "a", "n", "a", "l", "y", "z", "e", "r">>
S_detective ==
    <<"d", "e", "t", "e", "c", "t", "i", "v", "e">>
S_CapsaTeam ==
    <<"C", "A", "P", "S", "A", " ", "T", "e", "a", "m">>
S_BcgTeam ==
    <<"B", "C", "G", " ", "T", "e", "a", "m">>
S_BothTeams ==
    <<"B", "o", "t", "h", " ", "B", "C", "G", " ", "&", " ", "C", "A", "P", "S", "A", " ", "T", "e", "a", "m">>
S_Others ==
    <<"O", "t", "h", "e", "r", "s">>
S_critical ==
    <<"c", "r", "i", "t", "i", "c", "a", "l">>
S_high ==
    <<"h", "i", "g", "h">>
S_medium ==
    <<"m", "e", "d", "i", "u", "m">>
S_low ==
    <<"l", "o", "w">>
S_5Days ==
    <<"5", " ", "D", "a", "y", "s">>
S_1Week ==
    <<"1", " ", "W", "e", "e", "k">>
S_2Weeks ==
    <<"2", " ", "W", "e", "e", "k", "s">>
S_3Weeks ==
    <<"3", " ", "W", "e", "e", "k", "s">>
S_250 ==
    <<"$", "2", "5", "0", "/", "h", "o", "u", "r">>
S_150 ==
    <<"$", "1", "5", "0", "/", "h", "o", "u", "r">>
S_75 ==
    <<"$", "7", "5", "/", "h", "o", "u", "r">>
S_25 ==
    <<"$", "2", "5", "/", "h", "o", "u", "r">>
S_Minimal ==
    <<"M", "i", "n", "i", "m", "a", "l">>
S_CRITICAL ==
    <<"C", "R", "I", "T", "I", "C", "A", "L">>
S_HIGH ==
    <<"H", "I", "G", "H">>
S_MEDIUM ==
    <<"M", "E", "D", "I", "U", "M">>
S_LOW ==
    <<"L", "O", "W">>
S_INFORMATIONAL ==
    <<"I", "N", "F", "O", "R", "M", "A", "T", "I", "O", "N", "A", "L">>

\* ---------------------------------------------------------- Python values
\* A value carries a type tag t; each tag has its own payload field.
\* A number w + f/10 is kept as its floor w and its tenths digit f, so a
\* comparison with an integer threshold k is exact: x >= k  <=>  w >= k.
PyStr(s) ==
    [t |-> "str", s |-> s]
PyNum(w, f) ==
    [t |-> "num", w |-> w, f |-> f]
PyNone ==
    [t |-> "none"]
PyList(l) ==
    [t |-> "list", l |-> l]
PyDict(d) ==
    [t |-> "dict", d |-> d]
\* float('nan'), the missing-value marker pandas puts in an object column
NaN ==
    [t |-> "nan"]
\* the text of a file that json.load cannot parse
Invalid ==
    [t |-> "invalid"]
EmptyDict ==
    PyDict([k \in {} |-> PyNone])

\* bool(v)
Truthy(v) ==
    CASE v.t = "none" -> FALSE
      [] v.t = "num"  -> ~(v.w = 0 /\ v.f = 0)
      [] v.t = "str"  -> v.s # <<>>
      [] v.t = "list" -> v.l # <<>>
      [] v.t = "dict" -> DOMAIN v.d # {}
\* dict.get(key, default) on a dict value
Get(v, key, default) ==
    IF key \in DOMAIN v.d THEN v.d[key] ELSE default
\* a or b
Or(a, b) ==
    IF Truthy(a) THEN a ELSE b
\* str(v), for the values that reach it here: text and None
Str(v) ==
    CASE v.t = "str"  -> v.s
      [] v.t = "none" -> S_None

\* ------------------------------------------------- severity normalization
\* the thresholds taken as exclusive
sev_label_exclusive(sev) ==
    IF sev.t = "dict"
    THEN Or(Get(sev, "Label", PyNone),
            Or(Get(sev, "Normalized", PyNone), PyStr(S_Medium)))
    ELSE IF sev.t = "num"
    THEN PyStr(IF sev.w > 8 \/ (sev.w = 8 /\ sev.f > 0) THEN S_Critical
               ELSE IF sev.w > 5 \/ (sev.w = 5 /\ sev.f > 0) THEN S_High
               ELSE IF sev.w > 3 \/ (sev.w = 3 /\ sev.f > 0) THEN S_Medium
               ELSE S_Low)
    ELSE PyStr(Capitalize(Str(sev)))
sev_label(sev) ==
    IF sev.t = "dict"
    THEN Or(Get(sev, "Label", PyNone),
            Or(Get(sev, "Normalized", PyNone), PyStr(S_Medium)))
    ELSE IF sev.t = "num"
    THEN PyStr(IF sev.w >= 8 THEN S_Critical
               ELSE IF sev.w >= 5 THEN S_High
               ELSE IF sev.w >= 3 THEN S_Medium
               ELSE S_Low)
    ELSE PyStr(Capitalize(Str(sev)))

\* ------------------------------------------------------ record extraction
service_name(file) ==
    Capitalize(BeforeFirstDash(file))

\* fnd.get / fnd.get("Workflow", {}).get raise AttributeError unless fnd
\* and the Workflow value are dicts
Extractable(fnd) ==
    /\ fnd.t = "dict"
    /\ Get(fnd, "Workflow", EmptyDict).t = "dict"

FindingRecord(fnd, service) ==
    [Service     |-> PyStr(service),
     Account     |-> Get(fnd, "AwsAccountId",
                         Get(fnd, "resourceOwnerAccount", PyStr(S_Empty))),
     Region      |-> Get(fnd, "Region", PyStr(S_Region)),
     Resource    |-> PyStr(Str(Get(fnd, "Resource",
                                   Get(fnd, "resource", PyStr(S_Empty))))),
     Severity    |-> sev_label(Get(fnd, "Severity", PyStr(S_Medium))),
     Title       |-> Get(fnd, "Title",
                         Get(fnd, "id", PyStr(S_FindingFrom \o service))),
     Description |-> Get(fnd, "Description",
                         Get(fnd, "findingDetails", PyStr(S_Empty))),
     Status      |-> Get(Get(fnd, "Workflow", EmptyDict), "Status",
                         Get(fnd, "status", PyStr(S_ACTIVE))),
     CreatedAt   |-> Get(fnd, "CreatedAt", PyStr(S_Empty))]

\* the placeholder given the default status of a finding
PlaceholderRecord_active(service) ==
    [Service     |-> PyStr(service),
     Account     |-> PyStr(S_Empty),
     Region      |-> PyStr(S_Region),
     Resource    |-> PyStr(S_Empty),
     Severity    |-> PyStr(S_Informational),
     Title       |-> PyStr(S_NoCritical \o service),
     Description |-> PyStr(service \o S_DataLoaded),
     Status      |-> PyStr(S_ACTIVE),
     CreatedAt   |-> PyStr(S_Empty)]
PlaceholderRecord(service) ==
    [Service     |-> PyStr(service),
     Account     |-> PyStr(S_Empty),
     Region      |-> PyStr(S_Region),
     Resource    |-> PyStr(S_Empty),
     Severity    |-> PyStr(S_Informational),
     Title       |-> PyStr(S_NoCritical \o service),
     Description |-> PyStr(service \o S_DataLoaded),
     Status      |-> PyStr(S_NA),
     CreatedAt   |-> PyStr(S_Empty)]

\* for fnd in findings: records.append({...}); stops at the first element
\* that raises, with the records appended so far kept
RECURSIVE ExtractFindings(_, _)
ExtractFindings(items, service) ==
    IF items = <<>>
    THEN [records |-> <<>>, raised |-> "none"]
    ELSE IF ~Extractable(Head(items))
    THEN [records |-> <<>>, raised |-> "AttributeError"]
    ELSE LET rest == ExtractFindings(Tail(items), service)
         IN  [records |-> <<FindingRecord(Head(items), service)>>
                              \o rest.records,
              raised  |-> rest.raised]

\* the lookup without its second key
findings_primary_only(data) ==
    Get(data, "Findings", PyList(<<>>))
\* data.get("Findings", data.get("findings", []))
findings(data) ==
    Get(data, "Findings", Get(data, "findings", PyList(<<>>)))

\* The body of the load loop for one parsed document (lines 26-67)
ExtractDocument(data, service) ==
    IF data.t # "dict"
    THEN [records |-> <<>>, raised |-> "AttributeError"]
    ELSE IF ~Truthy(findings(data))
    THEN [records |-> <<PlaceholderRecord(service)>>, raised |-> "none"]
    ELSE CASE findings(data).t = "list" ->
                  ExtractFindings(findings(data).l, service)
           \* iterating a dict or a str yields str elements: fnd.get raises
           [] findings(data).t \in {"dict", "str"} ->
                  [records |-> <<>>, raised |-> "AttributeError"]
           \* a number is not iterable
           [] findings(data).t = "num" ->
                  [records |-> <<>>, raised |-> "TypeError"]

\* One iteration of the loop over glob.glob("*.json") (lines 20-67)
LoadOne(file) ==
    IF file.json = Invalid
    THEN [records |-> <<>>, raised |-> "JSONDecodeError"]
    ELSE ExtractDocument(file.json, service_name(file.name))

\* ------------------------------------------------------------- DataFrame
\* A frame is its column labels, in order, and its rows, each a function
\* from column label to cell.
RecordKeys ==
    <<"Service", "Account", "Region", "Resource", "Severity",
      "Title", "Description", "Status", "CreatedAt">>
\* pd.DataFrame(records)
DataFrame(recs) ==
    [columns |-> IF recs = <<>> THEN <<>> ELSE RecordKeys, rows |-> recs]
\* an empty check that never fires
Empty_never(frame) ==
    FALSE
\* df.empty
Empty(frame) ==
    frame.rows = <<>> \/ frame.columns = <<>>
\* df[col], as the sequence of the column's cells
Column(frame, col) ==
    [i \in 1..Len(frame.rows) |-> frame.rows[i][col]]
\* df[col] = cells: a new label is appended, an old one is overwritten
SetColumn(frame, col, cells) ==
    [columns |-> IF \E j \in 1..Len(frame.columns) : frame.columns[j] = col
                 THEN frame.columns
                 ELSE Append(frame.columns, col),
     rows    |-> [i \in 1..Len(frame.rows) |->
                     [c \in DOMAIN frame.rows[i] \cup {col} |->
                         IF c = col THEN cells[i] ELSE frame.rows[i][c]]]]
\* df[col].unique(), as a set
Unique(frame, col) ==
    {frame.rows[i][col] : i \in 1..Len(frame.rows)}
\* frame[frame[col].isin(values)]
IsIn(frame, col, values) ==
    [columns |-> frame.columns,
     rows    |-> SelectSeq(frame.rows, LAMBDA r : r[col] \in values)]
\* frame[[c1, ..., cn]]
Project(frame, cols) ==
    [columns |-> cols,
     rows    |-> [i \in 1..Len(frame.rows) |->
                     [c \in {cols[j] : j \in 1..Len(cols)} |->
                         frame.rows[i][c]]]]
\* len(frame[frame[col].isin(values)])
Count(frame, col, values) ==
    Len(IsIn(frame, col, values).rows)

\* The .str accessor exists on an object column only; a column whose cells
\* are all numbers has a numeric dtype and df[col].str raises.
HasStrAccessor(cells) ==
    \E i \in 1..Len(cells) : cells[i].t # "num"
\* Series.str.upper(): a cell that is not text becomes NaN
StrUpper(cells) ==
    [i \in 1..Len(cells) |->
        IF cells[i].t = "str" THEN PyStr(Upper(cells[i].s)) ELSE NaN]

\* ------------------------------------------------------- derived columns
team_map(service) ==
    LET s == Lower(Str(service))
    IN  IF Contains(s, S_guardduty) \/ Contains(s, S_securityhub)
        THEN PyStr(S_CapsaTeam)
        ELSE IF Contains(s, S_inspector) \/ Contains(s, S_accessanalyzer)
        THEN PyStr(S_BcgTeam)
        ELSE IF Contains(s, S_detective)
        THEN PyStr(S_BothTeams)
        ELSE PyStr(S_Others)

\* sev.lower() exists for text only
HasLower(sev) ==
    sev.t = "str"

fix_timeline(sev) ==
    LET s == Lower(sev.s)
    IN  IF s = S_critical THEN PyStr(S_5Days)
        ELSE IF s = S_high THEN PyStr(S_1Week)
        ELSE IF s = S_medium THEN PyStr(S_2Weeks)
        ELSE IF s = S_low THEN PyStr(S_3Weeks)
        ELSE PyStr(S_NA)

fix_cost(sev) ==
    LET s == Lower(sev.s)
    IN  IF s = S_critical THEN PyStr(S_250)
        ELSE IF s = S_high THEN PyStr(S_150)
        ELSE IF s = S_medium THEN PyStr(S_75)
        ELSE IF s = S_low THEN PyStr(S_25)
        ELSE PyStr(S_Minimal)

\* ------------------------------------------------------- report outputs
TableColumns ==
    <<"Service", "Severity", "Team", "Fix Timeline", "Cost to Fix (Est.)",
      "Title", "Description", "Account", "Region", "Status">>
\* What a tabular sink receives: the header row, then each row's cells in
\* column order (st.dataframe with hide_index, to_excel with index=False)
Sheet(frame) ==
    [header |-> frame.columns,
     cells  |-> [i \in 1..Len(frame.rows) |->
                    [j \in 1..Len(frame.columns) |->
                        frame.rows[i][frame.columns[j]]]]]
Unset ==
    [t |-> "unset"]

\* ---------------------------------------------------------------- inputs
FileNames ==
    {<<"g", "u", "a", "r", "d", "d", "u", "t", "y", "-", "x", ".", "j", "s", "o", "n">>,
     <<"I", "n", "s", "p", "e", "c", "t", "o", "r", "-", "y", ".", "j", "s", "o", "n">>,
     <<"d", "e", "t", "e", "c", "t", "i", "v", "e", ".", "j", "s", "o", "n">>}

T1 ==
    PyStr(<<"t", "1">>)
T2 ==
    PyStr(<<"t", "2">>)
T3 ==
    PyStr(<<"t", "3">>)

\* Raw Severity values of every shape the normalization distinguishes
NumericScores ==
    {PyNum(0, 0), PyNum(2, 9), PyNum(3, 0), PyNum(4, 9), PyNum(5, 0),
     PyNum(7, 9), PyNum(8, 0), PyNum(9, 2)}
MappingSeverities ==
    {PyDict([Label |-> PyStr(S_HIGH), Normalized |-> PyNum(70, 0)]),
     PyDict([Label |-> PyStr(S_Empty), Normalized |-> PyStr(S_low)]),
     PyDict([Normalized |-> PyNum(70, 0)]),
     PyDict([Product |-> PyNum(0, 0)]),
     EmptyDict}
TextSeverities ==
    {PyStr(<<"h", "I", "g", "H">>), PyStr(S_CRITICAL),
     PyStr(<<"u", "n", "k", "n", "o", "w", "n">>), PyNone}

\* a finding with the given title and raw severity
Finding(title, sev) ==
    PyDict([Title |-> title, Severity |-> sev])
\* findings that take the secondary keys, the defaults or a bad shape
OtherFindings ==
    {PyDict([id |-> T3, status |-> PyStr(<<"N", "E", "W">>),
             resourceOwnerAccount |-> PyStr(<<"1", "2", "3">>),
             resource |-> PyStr(<<"s", "g", "-", "1">>)]),
     PyDict([Title |-> T3,
             Workflow |-> PyDict([Status |-> PyStr(<<"N", "E", "W">>)]),
             status |-> PyStr(S_ACTIVE),
             AwsAccountId |-> PyStr(<<"1", "2", "3">>)]),
     EmptyDict,
     PyDict([Title |-> T3, Workflow |-> PyStr(<<"N", "E", "W">>)]),
     PyDict([Title |-> T3, Workflow |-> PyNone]),
     PyStr(<<"t", "3">>)}

\* the findings ordinary documents are built from, in catalogue order
Catalogue ==
    <<Finding(T1, PyNum(9, 2)),
      Finding(T2, PyDict([Label |-> PyStr(S_HIGH)])),
      PyDict([id |-> T3, status |-> PyStr(<<"N", "E", "W">>)]),
      Finding(T1, PyStr(S_low))>>
\* the first n findings of the catalogue
Prefix(n) ==
    SubSeq(Catalogue, 1, n)
PrefixLengths ==
    {n \in 1..MaxFindings : n <= Len(Catalogue)}
\* the longest findings list of an ordinary document
FullList ==
    Prefix(CHOOSE n \in PrefixLengths : \A m \in PrefixLengths : m <= n)

\* ordinary documents: a findings list of catalogue findings, or none
OrdinaryDocuments ==
    {PyDict([Findings |-> PyList(Prefix(n))]) : n \in PrefixLengths}
      \cup {EmptyDict}

\* every raw severity shape, alone or after catalogue findings
ShapeFindings ==
    {Finding(T3, s) :
        s \in NumericScores \cup MappingSeverities \cup TextSeverities}
      \cup OtherFindings \cup {Catalogue[1]}
ShapeDocuments ==
    {PyDict([Findings |-> PyList(Append(Prefix(n - 1), f))]) :
        n \in PrefixLengths, f \in ShapeFindings}

\* documents whose findings value is empty, under the second key, not a
\* list, or that are not a mapping at all, and a file that is not JSON
OddDocuments ==
    {PyDict([Findings |-> PyList(<<>>)]),
     PyDict([findings |-> PyList(<<>>)]),
     PyDict([findings |-> PyList(Prefix(1))]),
     PyDict([Findings |-> PyList(<<>>), findings |-> PyList(Prefix(1))]),
     PyDict([Findings |-> PyNone]),
     PyDict([Findings |-> PyNum(5, 0)]),
     PyDict([Findings |-> PyStr(<<"t", "1">>)]),
     PyDict([Findings |-> Finding(T1, PyNum(9, 2))]),
     PyList(Prefix(1)),
     PyNone,
     Invalid}

\* directory listings: at most MaxFiles files with distinct names, in any
\* discovery order; every file holds a common document, except that at
\* most one of them holds a special one
RECURSIVE NameSeqs(_)
NameSeqs(n) ==
    IF n = 0 THEN {<<>>}
    ELSE {Append(ns, x) : ns \in NameSeqs(n - 1), x \in FileNames}
Distinct(ns) ==
    \A i, j \in 1..Len(ns) : i # j => ns[i] # ns[j]
ContentSeqs(special, common, n) ==
    [1..n -> common]
      \cup {[cs EXCEPT ![k] = r] :
               cs \in [1..n -> common], k \in 1..n, r \in special}
Listings(special, common) ==
    UNION {{[i \in 1..n |-> [name |-> ns[i], json |-> cs[i]]] :
               ns \in {s \in NameSeqs(n) : Distinct(s)},
               cs \in ContentSeqs(special, common, n)} : n \in 0..MaxFiles}

\* ----------------------------------------------------------------- state
VARIABLES
    files,              \* glob.glob("*.json"): the files in discovery order
    pos,                \* number of files the load loop has gone through
    records,            \* the list the load loop appends to
    df,                 \* the normalized table
    selected_services,  \* sidebar selections
    selected_severity,
    selected_team,
    filtered,           \* the filtered view
    metrics,            \* the four st.metric counts
    table,              \* what st.dataframe is handed
    excel,              \* the sheet written by to_excel
    pc,                 \* the section of the script that runs next
    raised              \* the uncaught exception that ended the run

vars ==
    <<files, pos, records, df, selected_services, selected_severity,
      selected_team, filtered, metrics, table, excel, pc, raised>>

InitRest ==
    /\ pos = 0
    /\ records = <<>>
    /\ df = Unset
    /\ selected_services = {}
    /\ selected_severity = {}
    /\ selected_team = {}
    /\ filtered = Unset
    /\ metrics = Unset
    /\ table = Unset
    /\ excel = Unset
    /\ pc = "load"
    /\ raised = "none"

\* the whole script, over ordinary documents with at most one file that
\* does not parse or whose severity is a bare Normalized number
Init ==
    /\ files \in Listings({Invalid,
                           PyDict([Findings |-> PyList(<<Finding(T3,
                               PyDict([Normalized |-> PyNum(70, 0)]))>>)])},
                          OrdinaryDocuments)
    /\ InitRest

\* loading up to the derived columns: documents without findings and
\* documents with the longest findings list, with at most one file of any
\* other shape
InitLoad ==
    /\ files \in Listings(
                    ShapeDocuments \cup OddDocuments \cup OrdinaryDocuments,
                    {EmptyDict, PyDict([Findings |-> PyList(FullList)])})
    /\ InitRest

\* -------------------------------------------------------------- actions
\* lines 20-67: one iteration of the load loop
LoadFile ==
    /\ pc = "load"
    /\ pos < Len(files)
    /\ LET out == LoadOne(files[pos + 1])
       IN  /\ records' = records \o out.records
           /\ raised' = out.raised
           /\ IF out.raised = "none"
              THEN pos' = pos + 1 /\ pc' = "load"
              ELSE pos' = pos /\ pc' = "error"
    /\ UNCHANGED <<files, df, selected_services, selected_severity,
                   selected_team, filtered, metrics, table, excel>>

\* lines 70-73: build the table; st.stop() on an empty one
CreateDataFrame ==
    /\ pc = "load"
    /\ pos = Len(files)
    /\ df' = DataFrame(records)
    /\ pc' = IF Empty(DataFrame(records)) THEN "stopped" ELSE "normalize"
    /\ UNCHANGED <<files, pos, records, selected_services,
                   selected_severity, selected_team, filtered, metrics,
                   table, excel, raised>>

\* line 76: df["Severity"] = df["Severity"].str.upper()
NormalizeSeverity ==
    /\ pc = "normalize"
    /\ IF HasStrAccessor(Column(df, "Severity"))
       THEN /\ df' = SetColumn(df, "Severity",
                               StrUpper(Column(df, "Severity")))
            /\ pc' = "derive"
            /\ raised' = raised
       ELSE /\ df' = df
            /\ pc' = "error"
            /\ raised' = "AttributeError"
    /\ UNCHANGED <<files, pos, records, selected_services,
                   selected_severity, selected_team, filtered, metrics,
                   table, excel>>

\* lines 116-118: Team, then Fix Timeline, then Cost to Fix (Est.)
DerivedColumns ==
    /\ pc = "derive"
    /\ LET services == Column(df, "Service")
           sevs     == Column(df, "Severity")
           withTeam == SetColumn(df, "Team",
                         [i \in 1..Len(services) |-> team_map(services[i])])
       IN  IF \A i \in 1..Len(sevs) : HasLower(sevs[i])
           THEN /\ df' = SetColumn(
                           SetColumn(withTeam, "Fix Timeline",
                             [i \in 1..Len(sevs) |-> fix_timeline(sevs[i])]),
                           "Cost to Fix (Est.)",
                           [i \in 1..Len(sevs) |-> fix_cost(sevs[i])])
                /\ pc' = "filter"
                /\ raised' = raised
           ELSE /\ df' = withTeam
                /\ pc' = "error"
                /\ raised' = "AttributeError"
    /\ UNCHANGED <<files, pos, records, selected_services,
                   selected_severity, selected_team, filtered, metrics,
                   table, excel>>

\* the three isin filters applied even to an empty selection
Filter_always(frame, services, severity, team) ==
    IsIn(IsIn(IsIn(frame, "Service", services), "Severity", severity),
         "Team", team)
\* lines 127-133: the three isin filters, each skipped on an empty selection
Filter(frame, services, severity, team) ==
    LET f0 == frame
        f1 == IF services # {} THEN IsIn(f0, "Service", services) ELSE f0
        f2 == IF severity # {} THEN IsIn(f1, "Severity", severity) ELSE f1
        f3 == IF team # {} THEN IsIn(f2, "Team", team) ELSE f2
    IN  f3

\* lines 121-133: the sidebar selections, then the filtered view
FilterPanel ==
    /\ pc = "filter"
    /\ \E services \in SUBSET Unique(df, "Service"),
          severity \in SUBSET Unique(df, "Severity"),
          team \in SUBSET Unique(df, "Team") :
          /\ selected_services' = services
          /\ selected_severity' = severity
          /\ selected_team' = team
          /\ filtered' = Filter(df, services, severity, team)
    /\ pc' = "metrics"
    /\ UNCHANGED <<files, pos, records, df, metrics, table, excel, raised>>

\* lines 136-140
MetricsSummary ==
    /\ pc = "metrics"
    /\ metrics' =
         [total      |-> Len(filtered.rows),
          critical   |-> Count(filtered, "Severity", {PyStr(S_CRITICAL)}),
          high       |-> Count(filtered, "Severity", {PyStr(S_HIGH)}),
          medium_low |-> Count(filtered, "Severity",
                               {PyStr(S_MEDIUM), PyStr(S_LOW)})]
    /\ pc' = "table"
    /\ UNCHANGED <<files, pos, records, df, selected_services,
                   selected_severity, selected_team, filtered, table,
                   excel, raised>>

\* lines 173-180: st.dataframe(filtered[[...]], hide_index=True)
Table ==
    /\ pc = "table"
    /\ table' = Sheet(Project(filtered, TableColumns))
    /\ pc' = "export"
    /\ UNCHANGED <<files, pos, records, df, selected_services,
                   selected_severity, selected_team, filtered, metrics,
                   excel, raised>>

\* an export of the columns shown in the table
ExcelExport_table_columns ==
    /\ pc = "export"
    /\ excel' = Sheet(Project(filtered, TableColumns))
    /\ pc' = "done"
    /\ UNCHANGED <<files, pos, records, df, selected_services,
                   selected_severity, selected_team, filtered, metrics,
                   table, raised>>
\* lines 185-188: filtered.to_excel(writer, index=False)
ExcelExport ==
    /\ pc = "export"
    /\ excel' = Sheet(filtered)
    /\ pc' = "done"
    /\ UNCHANGED <<files, pos, records, df, selected_services,
                   selected_severity, selected_team, filtered, metrics,
                   table, raised>>

NextLoad ==
    \/ LoadFile
    \/ CreateDataFrame
    \/ NormalizeSeverity
    \/ DerivedColumns

Next ==
    \/ LoadFile
    \/ CreateDataFrame
    \/ NormalizeSeverity
    \/ DerivedColumns
    \/ FilterPanel
    \/ MetricsSummary
    \/ Table
    \/ ExcelExport

Spec ==
    Init /\ [][Next]_vars

SpecLoad ==
    InitLoad /\ [][NextLoad]_vars

\* ------------------------------------------------- vocabulary of the claims
\* the findings value of a document: under Findings, failing that under
\* findings, failing that an empty list
ListedFindings(doc) ==
    IF "Findings" \in DOMAIN doc.d THEN doc.d["Findings"]
    ELSE IF "findings" \in DOMAIN doc.d THEN doc.d["findings"]
    ELSE PyList(<<>>)
\* the document has no findings list, or an empty one
NoFindings(doc) ==
    ListedFindings(doc) = PyList(<<>>)
\* the findings of a document with a non-empty findings list
ListedItems(doc) ==
    IF ListedFindings(doc).t = "list" THEN ListedFindings(doc).l ELSE <<>>
\* the number of records a document is to contribute
Contribution(doc) ==
    IF ListedItems(doc) = <<>> THEN 1 ELSE Len(ListedItems(doc))
\* the position, in the records, of the first record of the i-th file
RECURSIVE FirstRow(_)
FirstRow(i) ==
    IF i = 1 THEN 1 ELSE FirstRow(i - 1) + Contribution(files[i - 1].json)
\* the row of the k-th finding of the i-th file
RowOf(i, k) ==
    FirstRow(i) + k - 1
HasColumn(frame, col) ==
    \E j \in 1..Len(frame.columns) : frame.columns[j] = col
\* the table exists and line 76 has upper-cased its Severity column
Normalized ==
    \/ pc \in {"derive", "filter", "metrics", "table", "export", "done"}
    \/ pc = "error" /\ df # Unset /\ HasColumn(df, "Team")
\* the filtered view exists
Filtered ==
    pc \in {"metrics", "table", "export", "done"}

\* ----------------------------------------------------------------- C1
\* C1: with several files of which one does not parse as JSON, the load
\* loop is not ended by that file: the run never stands in an error state
\* on an unparseable file.
C1_UnparseableFileIsSkipped ==
    \A i \in 1..Len(files) :
        (Len(files) >= 2 /\ files[i].json = Invalid)
            => ~(pc = "error" /\ pos + 1 = i)

\* ----------------------------------------------------------------- C2
\* C2: in every table that reaches the derived-column stage, every
\* record's Severity is present and is an upper-cased text label.
C2_SeverityUpperText ==
    Normalized =>
        \A i \in 1..Len(df.rows) :
            /\ df.rows[i]["Severity"].t = "str"
            /\ df.rows[i]["Severity"].s = Upper(df.rows[i]["Severity"].s)

\* ----------------------------------------------------------------- C3
\* C3: a parsed document never puts the pipeline in an error state,
\* whatever the shape of its fields: the only exception that can end a run
\* is the failure to parse a file.
C3_ShapesNeverRaise ==
    raised \in {"none", "JSONDecodeError"}

\* ----------------------------------------------------------------- C4
\* C4: every document the extractor has gone through contributes its
\* records at its place; one whose findings list is absent or empty
\* contributes exactly one record, of its service, with severity
\* Informational, status N/A and empty account, resource and createdAt,
\* and in the normalized table that record's severity is INFORMATIONAL.
C4_PlaceholderRecord ==
    /\ Len(records) >= FirstRow(pos + 1) - 1
    /\ raised = "none" => Len(records) = FirstRow(pos + 1) - 1
    /\ \A i \in 1..pos :
          NoFindings(files[i].json) =>
              LET r == records[FirstRow(i)]
              IN  /\ FirstRow(i + 1) = FirstRow(i) + 1
                  /\ r.Service = PyStr(service_name(files[i].name))
                  /\ Lower(r.Severity.s) = Lower(S_INFORMATIONAL)
                  /\ r.Status = PyStr(S_NA)
                  /\ r.Account = PyStr(S_Empty)
                  /\ r.Resource = PyStr(S_Empty)
                  /\ r.CreatedAt = PyStr(S_Empty)
                  /\ Normalized =>
                        /\ df.rows[FirstRow(i)]["Severity"]
                              = PyStr(S_INFORMATIONAL)
                        /\ df.rows[FirstRow(i)]["Status"] = PyStr(S_NA)
                        /\ df.rows[FirstRow(i)]["Account"] = PyStr(S_Empty)
                        /\ df.rows[FirstRow(i)]["Resource"] = PyStr(S_Empty)
                        /\ df.rows[FirstRow(i)]["CreatedAt"] = PyStr(S_Empty)
\* a table of two documents, the first without findings, is normalized
C4_Witness ==
    /\ pc = "derive"
    /\ Len(files) = 2
    /\ NoFindings(files[1].json)
    /\ ~NoFindings(files[2].json)
    /\ Len(df.rows) = 1 + Contribution(files[2].json)

\* ----------------------------------------------------------------- C5
\* C5: the filtered view is the subsequence of the table, in table order,
\* of the records whose service, severity and team each belong to the
\* corresponding selection when that selection is not empty; with the
\* three selections empty it is the whole table.
Selected(r) ==
    /\ selected_services = {} \/ r["Service"] \in selected_services
    /\ selected_severity = {} \/ r["Severity"] \in selected_severity
    /\ selected_team = {} \/ r["Team"] \in selected_team
C5_FilteredView ==
    Filtered =>
        /\ filtered.columns = df.columns
        /\ filtered.rows = SelectSeq(df.rows, Selected)
        /\ (selected_services = {} /\ selected_severity = {}
              /\ selected_team = {}) => filtered = df
\* a selection on two dimensions keeps some records and drops others
C5_Witness ==
    /\ pc = "done"
    /\ selected_severity # {}
    /\ selected_team # {}
    /\ selected_services = {}
    /\ Len(filtered.rows) >= 2
    /\ Len(filtered.rows) < Len(df.rows)

\* ----------------------------------------------------------------- C6
\* C6: when loading ends with zero records the run stops at the empty
\* check: no column is normalized or derived, and no filtered view,
\* metric, table or export is ever produced.
C6_NoDataIsTerminal ==
    (pos = Len(files) /\ records = <<>> /\ pc # "load") =>
        /\ pc = "stopped"
        /\ df = DataFrame(<<>>)
        /\ filtered = Unset
        /\ metrics = Unset
        /\ table = Unset
        /\ excel = Unset
C6_Witness ==
    pc = "stopped" /\ records = <<>> /\ files = <<>>

\* ----------------------------------------------------------------- C7
\* C7 as stated: the export has exactly the columns of the tabular
\* display, in the same order, and the rows of the filtered view.
C7_ExportEqualsTable ==
    pc = "done" => excel = table
\* C7 as amended: the export has every column of the filtered view, in the
\* view's own order (the nine record keys followed by the three derived
\* columns); the tabular display is the ten-column selection of the same
\* rows; both have exactly the rows of the filtered view, in its order.
ExportColumns ==
    <<"Service", "Account", "Region", "Resource", "Severity", "Title",
      "Description", "Status", "CreatedAt", "Team", "Fix Timeline",
      "Cost to Fix (Est.)">>
C7_ExportHasAllColumns ==
    pc = "done" =>
        /\ excel.header = ExportColumns
        /\ table.header = TableColumns
        /\ Len(excel.cells) = Len(filtered.rows)
        /\ Len(table.cells) = Len(filtered.rows)
        /\ \A i \in 1..Len(filtered.rows) :
              /\ \A j \in 1..Len(ExportColumns) :
                    excel.cells[i][j] = filtered.rows[i][ExportColumns[j]]
              /\ \A j \in 1..Len(TableColumns) :
                    table.cells[i][j] = filtered.rows[i][TableColumns[j]]
C7_Witness ==
    /\ pc = "done"
    /\ Len(excel.cells) >= 2
    /\ Len(excel.cells) < Len(df.rows)
    /\ excel.cells[1] # excel.cells[2]

\* ----------------------------------------------------------------- C8
\* C8: a finding whose raw severity is a number s is stored in the
\* normalized table as CRITICAL when s >= 8, HIGH when 5 <= s < 8, MEDIUM
\* when 3 <= s < 5 and LOW when s < 3.
NumericSeverity(fnd) ==
    /\ "Severity" \in DOMAIN fnd.d
    /\ fnd.d["Severity"].t = "num"
C8_NumericSeverity ==
    Normalized =>
        \A i \in 1..Len(files) :
            \A k \in 1..Len(ListedItems(files[i].json)) :
                LET fnd    == ListedItems(files[i].json)[k]
                    s      == fnd.d["Severity"]
                    stored == df.rows[RowOf(i, k)]["Severity"]
                IN  NumericSeverity(fnd) =>
                        /\ s.w >= 8 => stored = PyStr(S_CRITICAL)
                        /\ (s.w >= 5 /\ s.w < 8) => stored = PyStr(S_HIGH)
                        /\ (s.w >= 3 /\ s.w < 5) => stored = PyStr(S_MEDIUM)
                        /\ s.w < 3 => stored = PyStr(S_LOW)
\* a score of exactly 8 after another finding of the same file
C8_Witness ==
    /\ pc = "derive"
    /\ \E i \in 1..Len(files) :
          /\ Len(ListedItems(files[i].json)) = 2
          /\ NumericSeverity(ListedItems(files[i].json)[2])
          /\ ListedItems(files[i].json)[2].d["Severity"] = PyNum(8, 0)
          /\ df.rows[RowOf(i, 2)]["Severity"] = PyStr(S_CRITICAL)

\* ----------------------------------------------------------------- C9
\* C9: every record of the normalized table gets a team, a fix timeline
\* and a cost estimate, by the team and severity tables; no record makes
\* the derivation fail.
C9_DerivedColumnsDefined ==
    (Normalized /\ pc # "derive") =>
        /\ raised = "none"
        /\ \A i \in 1..Len(df.rows) :
              LET r == df.rows[i]
              IN  /\ DOMAIN r = {ExportColumns[j] :
                                    j \in 1..Len(ExportColumns)}
                  /\ r["Team"] \in {PyStr(S_CapsaTeam), PyStr(S_BcgTeam),
                                    PyStr(S_BothTeams), PyStr(S_Others)}
                  /\ r["Severity"] = PyStr(S_CRITICAL)
                        => r["Fix Timeline"] = PyStr(S_5Days)
                             /\ r["Cost to Fix (Est.)"] = PyStr(S_250)
                  /\ r["Severity"] \notin
                          {PyStr(S_CRITICAL), PyStr(S_HIGH),
                           PyStr(S_MEDIUM), PyStr(S_LOW)}
                        => r["Fix Timeline"] = PyStr(S_NA)
                             /\ r["Cost to Fix (Est.)"] = PyStr(S_Minimal)

\* ---------------------------------------------------------------- C10
\* C10: the table is the concatenation, in discovery order, of each
\* document's records in finding order: a document with n >= 1 findings
\* holds rows FirstRow(i) .. FirstRow(i) + n - 1, the k-th being of the
\* document's service and of the k-th finding's title; the table has no
\* other row, from the empty check up to filtering.
TitleOf(fnd) ==
    IF "Title" \in DOMAIN fnd.d THEN fnd.d["Title"] ELSE fnd.d["id"]
Titled(fnd) ==
    "Title" \in DOMAIN fnd.d \/ "id" \in DOMAIN fnd.d
C10_TableIsConcatenation ==
    df # Unset =>
        /\ Len(df.rows) = FirstRow(Len(files) + 1) - 1
        /\ \A i \in 1..Len(files) :
              /\ df.rows[FirstRow(i)]["Service"]
                    = PyStr(service_name(files[i].name))
              /\ \A k \in 1..Len(ListedItems(files[i].json)) :
                    LET fnd == ListedItems(files[i].json)[k]
                    IN  /\ df.rows[RowOf(i, k)]["Service"]
                              = PyStr(service_name(files[i].name))
                        /\ Titled(fnd) =>
                              df.rows[RowOf(i, k)]["Title"] = TitleOf(fnd)
\* two files, the first with two findings of different titles
C10_Witness ==
    /\ pc = "filter"
    /\ Len(files) = 2
    /\ Len(ListedItems(files[1].json)) = 2
    /\ Len(ListedItems(files[2].json)) = 2
    /\ Len(df.rows) = 4
    /\ df.rows[1]["Title"] # df.rows[2]["Title"]
    /\ df.rows[1]["Service"] # df.rows[3]["Service"]
====
